---- MODULE Spec2Model ----
(***************************************************************************)
(* Bot session protocol, order-verification gate and bot connection        *)
(* manager of coursetelebot (server/services/telegramBot.ts and its        *)
(* collaborators).  Every action is one synchronous segment of a handler   *)
(* (the code between two awaits) or one operation of an external system    *)
(* (the database, the commerce API) that a handler is awaiting.            *)
(***************************************************************************)
EXTENDS Integers, Sequences, FiniteSets, TLC

\* ------------------------------------------------------------------ bounds
NumChats == 2
MaxTasks == 2
MaxCallers == 2

Chats == 1..NumChats
Tasks == 1..MaxTasks
Callers == 1..MaxCallers

\* ------------------------------------------------- bot connection manager
VARIABLES apiConfigs, envToken, envAltToken, botInstance, bots, isInitializing,
          callers

connVars == <<apiConfigs, envToken, envAltToken, botInstance, bots,
              isInitializing, callers>>

\* the conversation engine's state (defined below)
VARIABLES users, userStates, tasks, outbox

convVars == <<users, userStates, tasks, outbox>>

\* the rate limiters' buckets and one call of verifyOrderPayment (defined below)
VARIABLES consumed, verdict, vcall

\* the course catalog and the menus a verified chat was sent (defined below)
VARIABLES courses, subcontents, buttons, reply

catVars == <<courses, subcontents, buttons, reply>>

auxVars == <<consumed, verdict, vcall, courses, subcontents, buttons, reply>>

vars == <<apiConfigs, envToken, envAltToken, botInstance, bots,
          isInitializing, callers, users, userStates, tasks, outbox,
          consumed, verdict, vcall, courses, subcontents, buttons, reply>>

Tokens == {"t1", "t2"}

\* a row of api_configurations; exists = FALSE is "no row"
NoCfg == [exists |-> FALSE, botToken |-> "", isActive |-> FALSE]

Cfg(tok, act) == [exists |-> TRUE, botToken |-> tok, isActive |-> act]

ConfigNames == {"woocommerce", "telegram"}

\* botInstance = 0 is null, otherwise an index into bots
NoBot == 0

IdleCaller ==
  [kind |-> "idle", pc |-> "idle", cfg |-> NoCfg, ret |-> NoBot,
   res |-> "none", tok |-> "", had |-> NoBot]

\* a step of the connection manager leaves the conversation engine alone
SetCaller(p, rec) ==
  /\ callers' = [callers EXCEPT ![p] = rec]
  /\ UNCHANGED convVars
  /\ UNCHANGED auxVars

Polling == {b \in 1..Len(bots) : bots[b].polling}

\* stopBot: stops polling only on a bot that is polling
stopBot(bs, b) ==
  IF b # NoBot /\ bs[b].polling THEN [bs EXCEPT ![b].polling = FALSE] ELSE bs

\* getTelegramConfig: null unless the row exists and is active
getTelegramConfig(row) ==
  IF ~row.exists \/ ~row.isActive THEN NoCfg ELSE row

\* process.env.TELEGRAM_BOT_TOKEN || process.env.BOT_TOKEN
tokenFromEnv == IF envToken # "" THEN envToken ELSE envAltToken

\* new TelegramBot(token, { polling: true }) followed by registerBotHandlers
newBot(tok) == [token |-> tok, polling |-> TRUE, handlers |-> TRUE]

\* ---- initTelegramBot, first synchronous segment (lines 66-86): returns the
\* existing instance, otherwise starts reading the telegram configuration.
\* The stop-and-discard block of lines 74-83 runs only when the early return
\* of line 68 did not, that is never with a non-null instance.
InitEnter(p, c) ==
  IF botInstance # NoBot
    THEN /\ SetCaller(p, [c EXCEPT !.pc = "init_ret", !.ret = botInstance])
         /\ UNCHANGED <<bots, botInstance>>
    ELSE /\ bots' = stopBot(bots, botInstance)
         /\ botInstance' = NoBot
         /\ SetCaller(p, [c EXCEPT !.pc = "init_getCfg"])

BootEnter_SkipsDefaults(p, c) ==
  IF isInitializing
    THEN /\ SetCaller(p, [c EXCEPT !.pc = "done", !.res = "skipped"])
         /\ UNCHANGED isInitializing
    ELSE /\ isInitializing' = TRUE
         /\ SetCaller(p, [c EXCEPT !.pc = "iac_done"])

\* ---- bootstrapTelegramBot called (lines 31-41)
BootEnter(p, c) ==
  IF isInitializing
    THEN /\ SetCaller(p, [c EXCEPT !.pc = "done", !.res = "skipped"])
         /\ UNCHANGED isInitializing
    ELSE /\ isInitializing' = TRUE
         /\ SetCaller(p, [c EXCEPT !.pc = "iac_getWoo"])

\* a startup or admin-independent call of bootstrapTelegramBot
CallBootstrap(p) ==
  /\ callers[p].kind = "idle"
  /\ BootEnter(p, [IdleCaller EXCEPT !.kind = "bootstrap", !.had = botInstance])
  /\ UNCHANGED <<apiConfigs, envToken, envAltToken, botInstance, bots>>

\* getBot called (lines 126-127): enters initTelegramBot
CallGetBot(p) ==
  /\ callers[p].kind = "idle"
  /\ InitEnter(p, [IdleCaller EXCEPT !.kind = "getBot", !.had = botInstance])
  /\ UNCHANGED <<apiConfigs, envToken, envAltToken, isInitializing>>

\* PUT /api-configs/telegram received (part_015 lines 421-426)
CallPut(p) ==
  /\ callers[p].kind = "idle"
  /\ \E t \in Tokens :
       SetCaller(p, [IdleCaller EXCEPT !.kind = "put", !.pc = "put_getCfg",
                                       !.tok = t, !.had = botInstance])
  /\ UNCHANGED <<apiConfigs, envToken, envAltToken, botInstance, bots,
                 isInitializing>>

\* ---- the database executes the operation a caller is awaiting
DbRead(p) ==
  LET c == callers[p] IN
  /\ c.pc \in {"iac_getWoo", "iac_getTg", "init_getCfg", "put_getCfg"}
  /\ \/ /\ c.pc = "iac_getWoo"
        /\ SetCaller(p, [c EXCEPT !.pc = "iac_gotWoo",
                                  !.cfg = apiConfigs["woocommerce"]])
     \/ /\ c.pc = "iac_getTg"
        /\ SetCaller(p, [c EXCEPT !.pc = "iac_gotTg",
                                  !.cfg = apiConfigs["telegram"]])
     \/ /\ c.pc = "init_getCfg"
        /\ SetCaller(p, [c EXCEPT !.pc = "init_gotCfg",
                         !.cfg = getTelegramConfig(apiConfigs["telegram"])])
     \/ /\ c.pc = "put_getCfg"
        /\ SetCaller(p, [c EXCEPT !.pc = "put_gotCfg",
                                  !.cfg = apiConfigs["telegram"]])
  /\ UNCHANGED <<apiConfigs, envToken, envAltToken, botInstance, bots,
                 isInitializing>>

\* the query of getTelegramConfig fails: its catch returns null (lines 106-110)
DbReadFails(p) ==
  LET c == callers[p] IN
  /\ c.pc = "init_getCfg"
  /\ SetCaller(p, [c EXCEPT !.pc = "init_gotCfg", !.cfg = NoCfg])
  /\ UNCHANGED <<apiConfigs, envToken, envAltToken, botInstance, bots,
                 isInitializing>>

\* a query of initializeApiConfigurations fails: its catch logs and the
\* function returns (apiConfigManager.ts lines 55-59)
IacReadFails(p) ==
  LET c == callers[p] IN
  /\ c.pc \in {"iac_getWoo", "iac_getTg"}
  /\ SetCaller(p, [c EXCEPT !.pc = "iac_threw"])
  /\ UNCHANGED <<apiConfigs, envToken, envAltToken, botInstance, bots,
                 isInitializing>>

\* createApiConfiguration: name is unique, a second insert throws
DbCreate(p) ==
  LET c == callers[p]
      n == IF c.pc = "iac_createWoo" THEN "woocommerce" ELSE "telegram"
      row == IF n = "woocommerce" THEN Cfg("", TRUE) ELSE Cfg(envToken, TRUE)
  IN
  /\ c.pc \in {"iac_createWoo", "iac_createTg"}
  /\ IF apiConfigs[n].exists
       THEN /\ SetCaller(p, [c EXCEPT !.pc = "iac_threw"])
            /\ UNCHANGED apiConfigs
       ELSE /\ apiConfigs' = [apiConfigs EXCEPT ![n] = row]
            /\ SetCaller(p, [c EXCEPT !.pc =
                 IF n = "woocommerce" THEN "iac_createdWoo" ELSE "iac_createdTg"])
  /\ UNCHANGED <<envToken, envAltToken, botInstance, bots, isInitializing>>

\* updateApiConfiguration(config.id, { credentials: { botToken } })
DbUpdate(p) ==
  LET c == callers[p] IN
  /\ c.pc = "put_update"
  /\ apiConfigs' = [apiConfigs EXCEPT !["telegram"].botToken = c.tok]
  /\ SetCaller(p, [c EXCEPT !.pc = "put_updated"])
  /\ UNCHANGED <<envToken, envAltToken, botInstance, bots, isInitializing>>

\* ---- initializeApiConfigurations resumes (apiConfigManager.ts lines 21-60)
IacStep(p) ==
  LET c == callers[p] IN
  /\ c.pc \in {"iac_gotWoo", "iac_createdWoo", "iac_gotTg"}
  /\ \/ /\ c.pc = "iac_gotWoo"
        /\ SetCaller(p, [c EXCEPT !.cfg = NoCfg, !.pc =
             IF c.cfg.exists THEN "iac_getTg" ELSE "iac_createWoo"])
     \/ /\ c.pc = "iac_createdWoo"
        /\ SetCaller(p, [c EXCEPT !.pc = "iac_getTg"])
     \/ /\ c.pc = "iac_gotTg"
        /\ SetCaller(p, [c EXCEPT !.cfg = NoCfg, !.pc =
             IF c.cfg.exists THEN "iac_done" ELSE "iac_createTg"])
  /\ UNCHANGED <<apiConfigs, envToken, envAltToken, botInstance, bots,
                 isInitializing>>

\* initializeApiConfigurations has returned: bootstrap calls initTelegramBot
\* (lines 41-44)
BootInit(p) ==
  LET c == callers[p] IN
  /\ c.pc \in {"iac_done", "iac_createdTg", "iac_threw"}
  /\ InitEnter(p, c)
  /\ UNCHANGED <<apiConfigs, envToken, envAltToken, isInitializing>>

\* ---- initTelegramBot resumes with the configuration (lines 88-114)
InitBuild(p) ==
  LET c == callers[p]
      tok == IF ~c.cfg.exists THEN tokenFromEnv ELSE c.cfg.botToken
  IN
  /\ c.pc = "init_gotCfg"
  /\ IF tok = ""
       THEN /\ SetCaller(p, [c EXCEPT !.pc = "init_null", !.ret = NoBot])
            /\ UNCHANGED <<bots, botInstance>>
       ELSE /\ bots' = Append(bots, newBot(tok))
            /\ botInstance' = Len(bots) + 1
            /\ SetCaller(p, [c EXCEPT !.pc = "init_reg"])
  /\ UNCHANGED <<apiConfigs, envToken, envAltToken, isInitializing>>

\* registerBotHandlers has resolved: return botInstance (line 116)
InitReturn(p) ==
  LET c == callers[p] IN
  /\ c.pc = "init_reg"
  /\ SetCaller(p, [c EXCEPT !.pc = "init_ret", !.ret = botInstance])
  /\ UNCHANGED <<apiConfigs, envToken, envAltToken, botInstance, bots,
                 isInitializing>>

BootFinish_NoFinally(p) ==
  LET c == callers[p] IN
  /\ c.kind \in {"bootstrap", "put"}
  /\ c.pc \in {"init_ret", "init_null"}
  /\ isInitializing' = (c.ret = NoBot)
  /\ SetCaller(p, [c EXCEPT !.pc = "done",
                            !.res = IF c.ret = NoBot THEN "failed" ELSE "ok"])
  /\ UNCHANGED <<apiConfigs, envToken, envAltToken, botInstance, bots>>

\* ---- the caller of initTelegramBot resumes
\* bootstrapTelegramBot: log the outcome, clear the flag (lines 46-59)
BootFinish(p) ==
  LET c == callers[p] IN
  /\ c.kind \in {"bootstrap", "put"}
  /\ c.pc \in {"init_ret", "init_null"}
  /\ isInitializing' = FALSE
  /\ SetCaller(p, [c EXCEPT !.pc = "done",
                            !.res = IF c.ret = NoBot THEN "failed" ELSE "ok"])
  /\ UNCHANGED <<apiConfigs, envToken, envAltToken, botInstance, bots>>

\* getBot: throws when initTelegramBot returned null (lines 128-131)
GetBotFinish(p) ==
  LET c == callers[p] IN
  /\ c.kind = "getBot"
  /\ c.pc \in {"init_ret", "init_null"}
  /\ SetCaller(p, [c EXCEPT !.pc = "done",
                            !.res = IF c.ret = NoBot THEN "threw" ELSE "ok"])
  /\ UNCHANGED <<apiConfigs, envToken, envAltToken, botInstance, bots,
                 isInitializing>>

\* ---- PUT /api-configs/telegram resumes (part_015 lines 428-445)
PutStep(p) ==
  LET c == callers[p] IN
  /\ c.kind = "put"
  /\ c.pc \in {"put_gotCfg", "put_updated"}
  /\ \/ /\ c.pc = "put_gotCfg"
        /\ SetCaller(p, IF c.cfg.exists
                          THEN [c EXCEPT !.pc = "put_update", !.cfg = NoCfg]
                          ELSE [c EXCEPT !.pc = "done", !.res = "notfound"])
        /\ UNCHANGED isInitializing
     \/ /\ c.pc = "put_updated"
        /\ BootEnter(p, c)
  /\ UNCHANGED <<apiConfigs, envToken, envAltToken, botInstance, bots>>

\* what PUT /api-configs/telegram answers once its call has returned with
\* res (part_015 lines 428-455).  bootstrapTelegramBot catches every error
\* and returns nothing, so the catch of lines 450-455 is never entered
putResponse(res) ==
  IF res = "notfound" THEN "404" ELSE "updated_and_restarted"

\* the call has returned to its caller; the slot is free again
Return(p) ==
  /\ callers[p].pc = "done"
  /\ SetCaller(p, IdleCaller)
  /\ UNCHANGED <<apiConfigs, envToken, envAltToken, botInstance, bots,
                 isInitializing>>

\* ------------------------------------------------------ conversation engine
\* ---- texts are sequences of characters
Digits == {"0", "1", "2", "3", "4", "5", "6", "7", "8", "9"}

IsSpace(ch) == ch = " "

RECURSIVE trimLeft(_)
trimLeft(s) ==
  IF s # <<>> /\ IsSpace(Head(s)) THEN trimLeft(Tail(s)) ELSE s

RECURSIVE trimRight(_)
trimRight(s) ==
  IF s # <<>> /\ IsSpace(s[Len(s)])
    THEN trimRight(SubSeq(s, 1, Len(s) - 1)) ELSE s

\* String.prototype.trim
trim(s) == trimRight(trimLeft(s))

RECURSIVE escapeChars(_)
escapeChars(s) ==
  IF s = <<>> THEN <<>>
  ELSE IF Head(s) = "'" THEN <<"'", "'">> \o escapeChars(Tail(s))
  ELSE IF Head(s) = "\\" THEN <<"\\", "\\">> \o escapeChars(Tail(s))
  ELSE <<Head(s)>> \o escapeChars(Tail(s))

\* sanitizeString: double quotes and backslashes, then trim
sanitizeString(input) == IF input = <<>> THEN <<>> ELSE trim(escapeChars(input))

\* /^[^\s@]+@[^\s@]+\.[^\s@]+$/
isValidEmail(email) ==
  /\ \A i \in 1..Len(email) : ~IsSpace(email[i])
  /\ Cardinality({i \in 1..Len(email) : email[i] = "@"}) = 1
  /\ \E i \in 2..Len(email) :
       /\ email[i] = "@"
       /\ \E j \in (i + 2)..(Len(email) - 1) : email[j] = "."

\* /^\d+$/
isValidOrderId(id) ==
  /\ id # <<>>
  /\ \A i \in 1..Len(id) : id[i] \in Digits

lowerChar(ch) ==
  IF ch = "A" THEN "a" ELSE IF ch = "B" THEN "b" ELSE IF ch = "C" THEN "c"
  ELSE ch

\* String.prototype.toLowerCase on the letters the inputs use
toLowerCase(s) == [i \in 1..Len(s) |-> lowerChar(s[i])]

\* ---- the texts chats send, and the orders of the commerce system
TextA == <<" ", "A", "@", "b", ".", "c">>

TextBad == <<"h", "'">>

Text7 == <<"7">>

Texts == {TextA, TextBad, Text7}

NoOrder == [exists |-> FALSE, email |-> <<>>, status |-> ""]

Statuses == {"completed", "processing", "pending"}

\* what the commerce system may answer for an order id: no such order, or the
\* order with its billing email and its status at that moment
OrderAnswers(id) ==
  {NoOrder} \cup
    (IF id = <<"7">>
       THEN {[exists |-> TRUE, email |-> <<"a", "@", "b", ".", "c">>,
              status |-> s] : s \in Statuses}
       ELSE {})

\* isOrderPaid
isOrderPaid(order) == order.status \in {"completed", "processing"}

verifyOrderPayment_CaseSensitive(orderId, email, order) ==
  IF orderId = <<>> \/ email = <<>> THEN FALSE
  ELSE IF ~order.exists THEN FALSE
  ELSE IF order.email # email THEN FALSE
  ELSE IF ~isOrderPaid(order) THEN FALSE
  ELSE TRUE

\* verifyOrderPayment once getOrderById has answered with order (null = NoOrder)
verifyOrderPayment(orderId, email, order) ==
  IF orderId = <<>> \/ email = <<>> THEN FALSE
  ELSE IF ~order.exists THEN FALSE
  ELSE IF toLowerCase(order.email) # toLowerCase(email) THEN FALSE
  ELSE IF ~isOrderPaid(order) THEN FALSE
  ELSE TRUE

\* ---- records
NoUser ==
  [exists |-> FALSE, email |-> <<>>, isVerified |-> FALSE, isBanned |-> FALSE,
   orderId |-> <<>>]

User(e, v, b, o) ==
  [exists |-> TRUE, email |-> e, isVerified |-> v, isBanned |-> b,
   orderId |-> o]

\* userStates.get(chatId) === undefined
NoSession == [step |-> "NONE", email |-> <<>>]

Session(st, e) == [step |-> st, email |-> e]

NoCall == [order |-> <<>>, email |-> <<>>, paid |-> FALSE]

IdleTask ==
  [kind |-> "idle", chat |-> 0, pc |-> "idle", text |-> <<>>,
   st |-> NoSession, usr |-> NoUser, owner |-> 0,
   orc |-> NoCall, wr |-> "none", out |-> {}, rl |-> "none"]

\* what the handler that returned in the last step had sent to its chat
Nothing == [kind |-> "none", chat |-> 0, msgs |-> {}, rl |-> "none"]

\* a handler moves on, or returns (pc = "done"): its slot is free again and
\* outbox shows what it sent and what telegramRateLimit had answered it
\* ("none" when the handler never called it)
SetTask(h, rec) ==
  /\ IF rec.pc = "done"
       THEN /\ tasks' = [tasks EXCEPT ![h] = IdleTask]
            /\ outbox' = [kind |-> rec.kind, chat |-> rec.chat,
                           msgs |-> rec.out, rl |-> rec.rl]
       ELSE /\ tasks' = [tasks EXCEPT ![h] = rec]
            /\ outbox' = Nothing
  /\ UNCHANGED connVars
  /\ UNCHANGED auxVars

Emit(t, m) == [t EXCEPT !.out = @ \cup {m}]

\* the handler returns after sending m
Done(t, m) == [t EXCEPT !.pc = "done", !.out = @ \cup {m}]

\* the handler returns without sending anything more
Quiet(t) == [t EXCEPT !.pc = "done"]

\* an arriving event is handled in the first free handler slot
Free(h) ==
  /\ tasks[h].kind = "idle"
  /\ \A g \in Tasks : g < h => tasks[g].kind # "idle"

\* getUserByEmail: the chat whose record holds exactly this email, 0 if none
ownerOf(us, e) ==
  IF \E c \in Chats : us[c].exists /\ us[c].email = e
    THEN CHOOSE c \in Chats : us[c].exists /\ us[c].email = e
    ELSE 0

\* the rate limiter lets the event through or not
Allowed == BOOLEAN

rateLimited_Silent(t) == Quiet([t EXCEPT !.rl = "denied"])

\* lines 170-173 and 260-263: telegramRateLimit answered false, the notice is
\* sent and the handler returns
rateLimited(t) == Done([t EXCEPT !.rl = "denied"], "too_many")

\* ---- /start (lines 164-177): rate limit, then the chat's record is read
StartCmd(h) ==
  /\ Free(h)
  /\ \E c \in Chats, r \in {"too_many", "error", "read"} :
       LET t0 == [IdleTask EXCEPT !.kind = "start", !.chat = c]
           t == [t0 EXCEPT !.rl = "passed"]
       IN
       SetTask(h, IF r = "too_many" THEN rateLimited(t0)
                  ELSE IF r = "read"
                    THEN [t EXCEPT !.pc = "start_gotUser", !.usr = users[c]]
                    ELSE Done(t, r))
  /\ UNCHANGED <<users, userStates>>

resumeState_NoEmail(u) == Session("ORDER_ID", <<>>)

\* lines 196-199: the session of a chat whose record u is not yet verified
resumeState(u) == Session("ORDER_ID", u.email)

newState_Start(u) == Session("START", <<>>)

\* line 205: the session of a chat without a record
newState(u) == Session("EMAIL", <<>>)

startReply_VerifiedFirst(u) ==
  IF u.isVerified THEN {"already", "menu"} ELSE {"banned"}

\* lines 180-193: what /start sends to a chat whose record u is banned or
\* verified
startReply(u) ==
  IF u.isBanned THEN {"banned"} ELSE {"already", "menu"}

\* lines 179-208
StartResume(h) ==
  LET t == tasks[h]
      u == t.usr
  IN
  /\ t.pc = "start_gotUser"
  /\ IF u.exists /\ (u.isBanned \/ u.isVerified)
       THEN /\ SetTask(h, [t EXCEPT !.pc = "done", !.out = @ \cup startReply(u)])
            /\ UNCHANGED userStates
     ELSE IF u.exists
       THEN /\ userStates' =
                 [userStates EXCEPT ![t.chat] = resumeState(u)]
            /\ SetTask(h, Done(t, "ask_order"))
     ELSE /\ userStates' = [userStates EXCEPT ![t.chat] = newState(u)]
          /\ SetTask(h, Done(t, "welcome"))
  /\ UNCHANGED users

\* ---- /help (lines 216-219)
HelpCmd(h) ==
  /\ Free(h)
  /\ \E c \in Chats :
       SetTask(h, Done([IdleTask EXCEPT !.kind = "help", !.chat = c], "welcome"))
  /\ UNCHANGED <<users, userStates>>

\* what /courses answers to a chat whose record is u (lines 229-244)
coursesReply(u) ==
  IF ~u.exists THEN "use_start"
  ELSE IF u.isBanned THEN "banned"
  ELSE IF ~u.isVerified THEN "not_verified_yet"
  ELSE "menu"

\* ---- /courses (lines 222-249): the record is read and the answer sent
CoursesCmd(h) ==
  /\ Free(h)
  /\ \E c \in Chats :
       \E m \in {coursesReply(users[c]), "error"} :
         SetTask(h, Done([IdleTask EXCEPT !.kind = "courses", !.chat = c], m))
  /\ UNCHANGED <<users, userStates>>

\* ---- menu selections (lines 373-499)
CourseIds == {1}

SubcontentIds == {1}

DataValues ==
  [type : {"course"}, id : {1, 2}] \cup [type : {"subcontent"}, id : {1, 2}]
    \cup [type : {"courses_menu", "other"}, id : {0}]

callbackReply_BanIgnored(u, d) ==
  IF ~u.exists \/ ~u.isVerified THEN "refused"
  ELSE IF d.type = "course"
    THEN IF d.id \in CourseIds THEN "summary" ELSE "not_found"
  ELSE IF d.type = "subcontent"
    THEN IF d.id \in SubcontentIds THEN "lesson" ELSE "not_found"
  ELSE IF d.type = "courses_menu" THEN "menu"
  ELSE ""

\* what a selection answers to a chat whose record is u; "" is no answer
callbackReply(u, d) ==
  IF ~u.exists \/ ~u.isVerified \/ u.isBanned THEN "refused"
  ELSE IF d.type = "course"
    THEN IF d.id \in CourseIds THEN "summary" ELSE "not_found"
  ELSE IF d.type = "subcontent"
    THEN IF d.id \in SubcontentIds THEN "lesson" ELSE "not_found"
  ELSE IF d.type = "courses_menu" THEN "menu"
  ELSE ""

Callback(h) ==
  /\ Free(h)
  /\ \E c \in Chats :
       \E m \in {callbackReply(users[c], d) : d \in DataValues} \cup {"error"} :
         LET t == [IdleTask EXCEPT !.kind = "callback", !.chat = c] IN
         SetTask(h, IF m = "" THEN Quiet(t) ELSE Done(t, m))
  /\ UNCHANGED <<users, userStates>>

\* ---- text messages (lines 252-263): the rate limiter is awaited
MessageFrom(h, X) ==
  /\ Free(h)
  /\ \E c \in Chats, x \in X :
       SetTask(h, [IdleTask EXCEPT !.kind = "message", !.chat = c,
                                   !.text = trim(x), !.pc = "msg_rl"])
  /\ UNCHANGED <<users, userStates>>

Message(h) ==
  \E X \in {Texts} : MessageFrom(h, X)

\* the same email written in lower case
TextLower == <<"a", "@", "b", ".", "c">>

\* chats that write one email in different letter case, and an order id
MessageCased(h) ==
  \E X \in {{TextA, TextLower, Text7}} : MessageFrom(h, X)

\* lines 260-308: rate limit, session lookup, input validation
MessageLimited(h) ==
  LET t == tasks[h]
      state == userStates[t.chat]
      clean == sanitizeString(t.text)
      t1 == [t EXCEPT !.st = state, !.rl = "passed"]
  IN
  /\ t.pc = "msg_rl"
  /\ \E ok \in Allowed :
       SetTask(h,
         IF ~ok THEN rateLimited(t)
         ELSE IF state = NoSession THEN Done(t1, "use_start")
         ELSE IF state.step = "EMAIL"
           THEN IF ~isValidEmail(clean) THEN Done(t1, "bad_email")
                ELSE [t1 EXCEPT !.pc = "msg_getByEmail"]
         ELSE IF state.step = "ORDER_ID" /\ state.email # <<>>
           THEN IF ~isValidOrderId(clean) THEN Done(t1, "bad_order")
                ELSE [t1 EXCEPT !.pc = "msg_wait"]
         ELSE Quiet(t1))
  /\ UNCHANGED <<users, userStates>>

\* getUserByEmail is executed by the database (line 283)
DbGetUserByEmail(h) ==
  LET t == tasks[h] IN
  /\ t.pc = "msg_getByEmail"
  /\ \E up \in BOOLEAN :
       SetTask(h, IF ~up THEN Done(t, "error")
                  ELSE [t EXCEPT !.pc = "msg_gotByEmail",
                          !.owner = ownerOf(users, sanitizeString(t.text))])
  /\ UNCHANGED <<users, userStates>>

emailRejected_AnyOwner(owner, chat) == owner # 0

\* line 284: existingUser && existingUser.telegramId !== telegramId
emailRejected(owner, chat) == owner # 0 /\ owner # chat

\* lines 284-297: the email is free or the chat's own
EmailResume(h) ==
  LET t == tasks[h]
      clean == sanitizeString(t.text)
  IN
  /\ t.pc = "msg_gotByEmail"
  /\ IF emailRejected(t.owner, t.chat)
       THEN SetTask(h, Done(t, "dup_email")) /\ UNCHANGED userStates
       ELSE /\ userStates' =
                 [userStates EXCEPT ![t.chat] = Session("ORDER_ID", clean)]
            /\ SetTask(h, Done(t, "email_ok"))
  /\ UNCHANGED users

verifiedNext_Unchecked(t, paid) == [t EXCEPT !.pc = "msg_getUser"]

\* lines 313-319: an order that is not verified ends the handling
verifiedNext(t, paid) ==
  IF ~paid THEN Done(t, "not_verified") ELSE [t EXCEPT !.pc = "msg_getUser"]

\* lines 308-316: the wait message is out, verifyOrderPayment is called and the
\* commerce system answers getOrderById, or the request fails (null)
OracleAnswers(h) ==
  LET t == tasks[h]
      id == sanitizeString(t.text)
      t1 == Emit(t, "wait")
  IN
  /\ t.pc = "msg_wait"
  /\ \E order \in OrderAnswers(id), sent \in BOOLEAN :
       LET paid == verifyOrderPayment(id, t.st.email, order)
           t2 == [t1 EXCEPT !.orc = [order |-> id, email |-> t.st.email,
                                     paid |-> paid]]
       IN SetTask(h, IF ~sent THEN Done(t, "error") ELSE verifiedNext(t2, paid))
  /\ UNCHANGED <<users, userStates>>

\* getUserByTelegramId is executed by the database (lines 319-321)
DbGetUser(h) ==
  LET t == tasks[h] IN
  /\ t.pc = "msg_getUser"
  /\ \E up \in BOOLEAN :
       SetTask(h, IF ~up THEN Done(t, "error")
                  ELSE [t EXCEPT !.usr = users[t.chat],
                                 !.pc = IF users[t.chat].exists
                                          THEN "msg_update" ELSE "msg_create"])
  /\ UNCHANGED <<users, userStates>>

\* users.email and users.telegram_id are unique (schema): a clash throws
emailTaken(us, c, e) == \E d \in Chats \ {c} : us[d].exists /\ us[d].email = e

writeNext_Swallowed(t, ok) ==
  [t EXCEPT !.pc = "msg_wrote", !.wr = IF ok THEN "ok" ELSE "threw"]

\* a write that throws is caught by the handler's catch (lines 367-369), one
\* that returns lets the handler go on to line 347
writeNext(t, ok) ==
  IF ok THEN [t EXCEPT !.pc = "msg_wrote", !.wr = "ok"] ELSE Done(t, "error")

\* updateUser(user.id, { isVerified: true, orderId, email }) / createUser is
\* executed by the database (lines 323-345).  An update that matches no row
\* returns undefined: the handler logs it (lines 329-333) and goes on.
DbWriteUser(h) ==
  LET t == tasks[h]
      id == sanitizeString(t.text)
      norow == t.pc = "msg_update" /\ ~users[t.chat].exists
      clash == \/ emailTaken(users, t.chat, t.st.email)
               \/ t.pc = "msg_create" /\ users[t.chat].exists
      row == IF t.pc = "msg_update"
               THEN [users[t.chat] EXCEPT !.isVerified = TRUE, !.orderId = id,
                                          !.email = t.st.email]
               ELSE User(t.st.email, TRUE, FALSE, id)
  IN
  /\ t.pc \in {"msg_update", "msg_create"}
  /\ \E up \in BOOLEAN :
       IF norow /\ up
         THEN /\ SetTask(h, [t EXCEPT !.pc = "msg_wrote", !.wr = "norow"])
              /\ UNCHANGED users
       ELSE IF clash \/ ~up
         THEN SetTask(h, writeNext(t, FALSE)) /\ UNCHANGED users
         ELSE /\ users' = [users EXCEPT ![t.chat] = row]
              /\ SetTask(h, writeNext(t, TRUE))
  /\ UNCHANGED userStates

\* lines 347-365: the write returned, the session is cleared, the wait message
\* is edited and success and the course menu are sent
ClearState(h) ==
  LET t == tasks[h] IN
  /\ t.pc = "msg_wrote"
  /\ userStates' = [userStates EXCEPT ![t.chat] = NoSession]
  /\ \E edited \in BOOLEAN :
       SetTask(h, IF edited THEN Done(Emit(t, "success"), "menu")
                  ELSE Done(t, "error"))
  /\ UNCHANGED users

\* ---- the admin surface writes user records (part_015 lines 101-157)
StoredEmails == {sanitizeString(trim(x)) : x \in {TextA}}

AdminCreateUser(c) ==
  /\ ~users[c].exists
  /\ \E e \in StoredEmails, v \in BOOLEAN, b \in BOOLEAN :
       /\ ~emailTaken(users, c, e)
       /\ users' = [users EXCEPT ![c] = User(e, v, b, <<>>)]
  /\ outbox' = Nothing
  /\ UNCHANGED <<userStates, tasks>>
  /\ UNCHANGED connVars
  /\ UNCHANGED auxVars

AdminVerify(c) ==
  /\ users[c].exists
  /\ users' = [users EXCEPT ![c].isVerified = TRUE]
  /\ outbox' = Nothing
  /\ UNCHANGED <<userStates, tasks>>
  /\ UNCHANGED connVars
  /\ UNCHANGED auxVars

AdminBan(c) ==
  /\ users[c].exists
  /\ users' = [users EXCEPT ![c].isBanned = TRUE]
  /\ outbox' = Nothing
  /\ UNCHANGED <<userStates, tasks>>
  /\ UNCHANGED connVars
  /\ UNCHANGED auxVars

AdminUnban(c) ==
  /\ users[c].exists
  /\ users' = [users EXCEPT ![c].isBanned = FALSE]
  /\ outbox' = Nothing
  /\ UNCHANGED <<userStates, tasks>>
  /\ UNCHANGED connVars
  /\ UNCHANGED auxVars

\* a row of users is deleted in the database by someone other than this
\* program (no route or handler deletes users); followed here only where a
\* handler of the chat stands between its read and its update of the row
DbRowRemoved(c) ==
  /\ users[c].exists
  /\ \E h \in Tasks : tasks[h].chat = c /\ tasks[h].pc = "msg_update"
  /\ users' = [users EXCEPT ![c] = NoUser]
  /\ outbox' = Nothing
  /\ UNCHANGED <<userStates, tasks>>
  /\ UNCHANGED connVars
  /\ UNCHANGED auxVars

ConvInit ==
  /\ users = [c \in Chats |-> NoUser]
  /\ userStates = [c \in Chats |-> NoSession]
  /\ tasks = [h \in Tasks |-> IdleTask]
  /\ outbox = Nothing

ConvNext ==
  \/ \E h \in Tasks :
       \/ StartCmd(h)
       \/ StartResume(h)
       \/ HelpCmd(h)
       \/ CoursesCmd(h)
       \/ Callback(h)
       \/ Message(h)
       \/ MessageLimited(h)
       \/ DbGetUserByEmail(h)
       \/ EmailResume(h)
       \/ OracleAnswers(h)
       \/ DbGetUser(h)
       \/ DbWriteUser(h)
       \/ ClearState(h)
  \/ \E c \in Chats :
       \/ AdminCreateUser(c)
       \/ AdminVerify(c)
       \/ AdminBan(c)
       \/ AdminUnban(c)

\* ------------------------------------------------------------ rate limiters
Limiters == {"login", "api", "telegram"}

loginPoints == 5

apiPoints == 100

telegramPoints == 20

points(l) ==
  IF l = "login" THEN loginPoints
  ELSE IF l = "api" THEN apiPoints
  ELSE telegramPoints

NoVerdict == [limiter |-> "none", before |-> 0, out |-> "none"]

\* RateLimiterMemory.consume(key): one more point is counted for the key in
\* the current window; the promise is rejected when the count exceeds points
consume(l, used) == [used |-> used + 1, ok |-> used + 1 <= points(l)]

telegramRateLimit_FailOpen(ok) == TRUE

\* telegramRateLimit: true when consume resolved, false when it rejected
telegramRateLimit(ok) == ok

\* loginRateLimiter / apiRateLimiter: next() or status 429
rateLimitResponse(ok) == IF ok THEN "next" ELSE "429"

\* one attempt on the bucket of limiter l (for one key); its answer is out
Attempt(l, out) ==
  /\ consumed' = [consumed EXCEPT ![l] = consume(l, consumed[l]).used]
  /\ verdict' = [limiter |-> l, before |-> consumed[l], out |-> out]
  /\ UNCHANGED vcall
  /\ UNCHANGED catVars
  /\ UNCHANGED connVars
  /\ UNCHANGED convVars

\* the attempts are followed up to the first one that is denied
TelegramConsume ==
  /\ consumed["telegram"] <= telegramPoints
  /\ Attempt("telegram",
             IF telegramRateLimit(consume("telegram", consumed["telegram"]).ok)
               THEN "true" ELSE "false")

ApiConsume ==
  /\ consumed["api"] <= apiPoints
  /\ Attempt("api", rateLimitResponse(consume("api", consumed["api"]).ok))

LoginConsume ==
  /\ consumed["login"] <= loginPoints
  /\ Attempt("login", rateLimitResponse(consume("login", consumed["login"]).ok))

\* the window of a key ends (duration seconds after its first point)
WindowExpires ==
  /\ \E l \in Limiters :
       /\ consumed[l] > 0
       /\ consumed' = [consumed EXCEPT ![l] = 0]
  /\ verdict' = NoVerdict
  /\ UNCHANGED vcall
  /\ UNCHANGED catVars
  /\ UNCHANGED connVars
  /\ UNCHANGED convVars

LimiterNext ==
  \/ TelegramConsume
  \/ ApiConsume
  \/ LoginConsume
  \/ WindowExpires

\* ------------------------------------------- one call of verifyOrderPayment
\* how long a request is watched, in ticks of a clock
MaxWait == 3

\* the arguments a caller may pass
OrderIds == {<<>>, <<"7">>, <<"8">>}

Emails == {<<>>, <<"A", "@", "b", ".", "c">>, <<"x", "@", "b", ".", "c">>}

\* getWooCommerceAPIConfig: the row is missing, inactive, lacks a key or a
\* secret, its read fails, or it is usable
WooOutcomes == {"missing", "inactive", "nocreds", "error", "ok"}

NoResponse == [kind |-> "none", email |-> <<>>, status |-> ""]

\* what axios.get resolves with (an order, or data that is no order) or
\* rejects with (an HTTP error status, a network error)
Responses ==
  {[kind |-> "order", email |-> e, status |-> st] :
     e \in {<<"a", "@", "b", ".", "c">>, <<"y", "@", "b", ".", "c">>},
     st \in Statuses}
  \cup {[kind |-> k, email |-> <<>>, status |-> ""] :
          k \in {"http_error", "network_error", "malformed"}}

IdleCall ==
  [pc |-> "idle", orderId |-> <<>>, email |-> <<>>, cfg |-> "none",
   resp |-> NoResponse, result |-> FALSE, silent |-> FALSE, elapsed |-> 0]

\* getOrderById: the data of the response, null when the request was rejected
getOrderById(resp) ==
  IF resp.kind = "order"
    THEN [exists |-> TRUE, email |-> resp.email, status |-> resp.status]
    ELSE NoOrder

\* verifyOrderPayment after the response: data without billing.email makes
\* getOrderEmail throw, which the catch of lines 221-232 turns into false
verifyAnswer(orderId, email, resp) ==
  IF resp.kind = "malformed" THEN FALSE
  ELSE verifyOrderPayment(orderId, email, getOrderById(resp))

SetCall(rec) ==
  /\ vcall' = rec
  /\ UNCHANGED <<consumed, verdict>>
  /\ UNCHANGED catVars
  /\ UNCHANGED connVars
  /\ UNCHANGED convVars

\* verifyOrderPayment is called (lines 185-195)
VerifyCalled ==
  /\ vcall.pc = "idle"
  /\ \E id \in OrderIds, e \in Emails :
       LET c == [IdleCall EXCEPT !.orderId = id, !.email = e] IN
       SetCall(IF id = <<>> \/ e = <<>>
                 THEN [c EXCEPT !.pc = "returned",
                                !.result = verifyOrderPayment(id, e, NoOrder)]
                 ELSE [c EXCEPT !.pc = "getConfig"])

\* getOrderById: the configuration is read (lines 152-163); without a usable
\* one it returns null, otherwise the request is sent (lines 14-36)
ConfigAnswers ==
  /\ vcall.pc = "getConfig"
  /\ \E o \in WooOutcomes, quiet \in BOOLEAN :
       SetCall(IF o = "ok"
                 THEN [vcall EXCEPT !.pc = "request", !.cfg = o,
                                    !.silent = quiet]
                 ELSE [vcall EXCEPT !.pc = "returned", !.cfg = o,
                         !.result =
                           verifyOrderPayment(vcall.orderId, vcall.email, NoOrder)])

\* the commerce API answers the request, unless it never does
OracleResponds ==
  /\ vcall.pc = "request"
  /\ ~vcall.silent
  /\ \E r \in Responses :
       SetCall([vcall EXCEPT !.pc = "returned", !.resp = r,
                  !.result = verifyAnswer(vcall.orderId, vcall.email, r)])

\* time passes while axios.get is pending; the request carries no timeout
Tick ==
  /\ vcall.pc = "request"
  /\ vcall.elapsed < MaxWait
  /\ SetCall([vcall EXCEPT !.elapsed = @ + 1])

\* the caller has the result
VerifyReturns ==
  /\ vcall.pc = "returned"
  /\ SetCall(IdleCall)

OracleNext ==
  \/ VerifyCalled
  \/ ConfigAnswers
  \/ OracleResponds
  \/ Tick
  \/ VerifyReturns

\* ---------------------------------------------------------- course catalog
NumCourses == 2

NumSubcontents == 2

CourseKeys == 1..NumCourses

SubcontentKeys == 1..NumSubcontents

\* line 415
maxContentLength == 500

\* a row of courses; content is the length of the text.  Keys are serial: a
\* key that was used is not given out again (state "deleted")
NoCourse == [state |-> "free", isActive |-> FALSE, content |-> 0]

ContentLengths == {3, maxContentLength + 1}

\* a row of course_subcontents; url "" is a null url
NoSubcontent == [state |-> "free", courseId |-> 0, content |-> 0, url |-> ""]

Urls == {"", "u"}

\* callback_data of a button
Selector(type, id) == [type |-> type, id |-> id]

getActiveCourses(cs) ==
  {c \in CourseKeys : cs[c].state = "live" /\ cs[c].isActive}

getCourse(cs, id) ==
  IF id \in CourseKeys /\ cs[id].state = "live" THEN cs[id] ELSE NoCourse

getCourseSubcontents(ss, id) ==
  {k \in SubcontentKeys : ss[k].state = "live" /\ ss[k].courseId = id}

getCourseSubcontent(ss, id) ==
  IF id \in SubcontentKeys /\ ss[id].state = "live" THEN ss[id]
  ELSE NoSubcontent

\* what one handler sent: the parts of the message text, the length of the
\* content in it, and the buttons under it
NoReply ==
  [kind |-> "none", sel |-> Selector("none", 0), parts |-> {}, body |-> 0,
   buttons |-> {}]

\* sendCourseMenu (lines 502-526)
sendCourseMenu(cs) ==
  IF getActiveCourses(cs) = {}
    THEN [NoReply EXCEPT !.kind = "no_courses"]
    ELSE [NoReply EXCEPT !.kind = "menu", !.parts = {"heading"},
            !.buttons = {Selector("course", c) : c \in getActiveCourses(cs)}]

\* the course_ branch (lines 394-452)
courseReply(cs, ss, d) ==
  LET course == getCourse(cs, d.id) IN
  IF course.state # "live"
    THEN [NoReply EXCEPT !.kind = "not_found", !.sel = d]
    ELSE [NoReply EXCEPT
            !.kind = "summary", !.sel = d,
            !.parts = {"title", "description", "content"},
            !.body = IF course.content > maxContentLength
                       THEN maxContentLength ELSE course.content,
            !.buttons = {Selector("subcontent", k) :
                           k \in getCourseSubcontents(ss, d.id)}
                        \cup {Selector("courses_menu", 0)}]

\* the subcontent_ branch (lines 455-483)
subcontentReply(ss, d) ==
  LET subcontent == getCourseSubcontent(ss, d.id) IN
  IF subcontent.state # "live"
    THEN [NoReply EXCEPT !.kind = "not_found", !.sel = d]
    ELSE [NoReply EXCEPT
            !.kind = "lesson", !.sel = d,
            !.parts = {"title", "content"},
            !.body = subcontent.content,
            !.buttons = {Selector("course", subcontent.courseId)}]

\* a step of the catalog leaves the rest alone
CatalogFrame ==
  /\ UNCHANGED <<consumed, verdict, vcall>>
  /\ UNCHANGED connVars
  /\ UNCHANGED convVars

\* an administrator changed the catalog: no handler has answered since
AfterAdmin ==
  /\ reply' = NoReply
  /\ UNCHANGED buttons
  /\ CatalogFrame

\* POST /courses (part_015 lines 184-192)
AdminCreateCourse(c) ==
  /\ courses[c].state = "free"
  /\ \A b \in CourseKeys : b < c => courses[b].state # "free"
  /\ \E a \in BOOLEAN, n \in ContentLengths :
       courses' = [courses EXCEPT ![c] =
                     [state |-> "live", isActive |-> a, content |-> n]]
  /\ UNCHANGED subcontents
  /\ AfterAdmin

\* PUT /courses/:id (part_015 lines 194-208)
AdminUpdateCourse(c) ==
  /\ courses[c].state = "live"
  /\ \E a \in BOOLEAN, n \in ContentLengths :
       courses' = [courses EXCEPT ![c].isActive = a, ![c].content = n]
  /\ UNCHANGED subcontents
  /\ AfterAdmin

\* DELETE /courses/:id: deleteCourse removes the course's subcontents first
AdminDeleteCourse(c) ==
  /\ courses[c].state = "live"
  /\ courses' = [courses EXCEPT ![c] = [NoCourse EXCEPT !.state = "deleted"]]
  /\ subcontents' =
       [k \in SubcontentKeys |->
          IF subcontents[k].state = "live" /\ subcontents[k].courseId = c
            THEN [NoSubcontent EXCEPT !.state = "deleted"]
            ELSE subcontents[k]]
  /\ AfterAdmin

\* POST /courses/:courseId/subcontents: course_id references courses.id
AdminCreateSubcontent(k) ==
  /\ subcontents[k].state = "free"
  /\ \A j \in SubcontentKeys : j < k => subcontents[j].state # "free"
  /\ \E c \in CourseKeys, u \in Urls :
       /\ courses[c].state = "live"
       /\ subcontents' = [subcontents EXCEPT ![k] =
            [state |-> "live", courseId |-> c,
             content |-> maxContentLength + 1, url |-> u]]
  /\ UNCHANGED courses
  /\ AfterAdmin

\* PUT /subcontents/:id
AdminUpdateSubcontent(k) ==
  /\ subcontents[k].state = "live"
  /\ \E u \in Urls : subcontents' = [subcontents EXCEPT ![k].url = u]
  /\ UNCHANGED courses
  /\ AfterAdmin

\* DELETE /subcontents/:id
AdminDeleteSubcontent(k) ==
  /\ subcontents[k].state = "live"
  /\ subcontents' =
       [subcontents EXCEPT ![k] = [NoSubcontent EXCEPT !.state = "deleted"]]
  /\ UNCHANGED courses
  /\ AfterAdmin

\* a handler answered a verified, unbanned chat with r
Answer(r) ==
  /\ reply' = r
  /\ buttons' = buttons \cup r.buttons
  /\ UNCHANGED <<courses, subcontents>>
  /\ CatalogFrame

\* /courses, or the button courses_menu (lines 244, 486-489)
ShowCourses ==
  \E r \in {sendCourseMenu(courses)} : Answer(r)

\* the chat presses a course button of a message it was sent
SelectCourse ==
  \E d \in buttons :
    d.type = "course" /\ Answer(courseReply(courses, subcontents, d))

\* the chat presses a lesson button of a message it was sent
SelectSubcontent ==
  \E d \in buttons :
    d.type = "subcontent" /\ Answer(subcontentReply(subcontents, d))

CatalogNext ==
  \/ \E c \in CourseKeys :
       \/ AdminCreateCourse(c)
       \/ AdminUpdateCourse(c)
       \/ AdminDeleteCourse(c)
  \/ \E k \in SubcontentKeys :
       \/ AdminCreateSubcontent(k)
       \/ AdminUpdateSubcontent(k)
       \/ AdminDeleteSubcontent(k)
  \/ ShowCourses
  \/ SelectCourse
  \/ SelectSubcontent

AuxInit ==
  /\ consumed = [l \in Limiters |-> 0]
  /\ verdict = NoVerdict
  /\ vcall = IdleCall
  /\ courses = [c \in CourseKeys |-> NoCourse]
  /\ subcontents = [k \in SubcontentKeys |-> NoSubcontent]
  /\ buttons = {}
  /\ reply = NoReply

ConnInit ==
  /\ \E w \in {NoCfg, Cfg("", TRUE)} :
       \E t \in {NoCfg, Cfg("", TRUE), Cfg("t1", TRUE)} :
         apiConfigs = [n \in ConfigNames |->
                         IF n = "woocommerce" THEN w ELSE t]
  /\ envToken \in {"", "t1"}
  /\ envAltToken \in {"", "t1"}
  /\ botInstance = NoBot
  /\ bots = <<>>
  /\ isInitializing = FALSE
  /\ callers = [p \in Callers |-> IdleCaller]

BootNext ==
  \E p \in Callers :
    \/ CallBootstrap(p)
    \/ CallPut(p)
    \/ DbRead(p)
    \/ DbReadFails(p)
    \/ DbCreate(p)
    \/ DbUpdate(p)
    \/ IacStep(p)
    \/ BootInit(p)
    \/ InitBuild(p)
    \/ InitReturn(p)
    \/ BootFinish(p)
    \/ PutStep(p)
    \/ Return(p)

ConnNext ==
  \/ BootNext
  \/ \E p \in Callers : CallGetBot(p)
  \/ \E p \in Callers : GetBotFinish(p)

\* the engine's handlers run on an established connection
Running ==
  /\ apiConfigs = [n \in ConfigNames |->
                     IF n = "woocommerce" THEN Cfg("", TRUE) ELSE Cfg("t1", TRUE)]
  /\ envToken = "t1"
  /\ envAltToken = ""
  /\ botInstance = 1
  /\ bots = <<newBot("t1")>>
  /\ isInitializing = FALSE
  /\ callers = [p \in Callers |-> IdleCaller]

Init == ConvInit /\ Running /\ AuxInit

Next == ConvNext

Spec == Init /\ [][Next]_vars

\* the process starts: no connection yet, no chat event handled yet
Startup == ConnInit /\ ConvInit /\ AuxInit

SpecRebuild == Startup /\ [][BootNext]_vars

SpecConn == Startup /\ [][ConnNext]_vars

\* the verification conversation on a database whose rows may also be deleted
PersistNext ==
  \/ \E h \in Tasks :
       \/ StartCmd(h)
       \/ StartResume(h)
       \/ Message(h)
       \/ MessageLimited(h)
       \/ DbGetUserByEmail(h)
       \/ EmailResume(h)
       \/ OracleAnswers(h)
       \/ DbGetUser(h)
       \/ DbWriteUser(h)
       \/ ClearState(h)
  \/ \E c \in Chats :
       \/ AdminCreateUser(c)
       \/ DbRowRemoved(c)

SpecPersist == Init /\ [][PersistNext]_vars

\* bootstrap and rebuild on a store whose queries may fail during
\* initializeApiConfigurations
DefaultsNext ==
  \/ BootNext
  \/ \E p \in Callers : IacReadFails(p)

SpecDefaults == Startup /\ [][DefaultsNext]_vars

\* the verification conversation of chats that write the email of one order
\* in different letter case
CasedNext ==
  \E h \in Tasks :
    \/ StartCmd(h)
    \/ StartResume(h)
    \/ MessageCased(h)
    \/ MessageLimited(h)
    \/ DbGetUserByEmail(h)
    \/ EmailResume(h)
    \/ OracleAnswers(h)
    \/ DbGetUser(h)
    \/ DbWriteUser(h)
    \/ ClearState(h)

SpecCased == Init /\ [][CasedNext]_vars

SpecCatalog == Init /\ [][CatalogNext]_vars

SpecOracle == Init /\ [][OracleNext]_vars

SpecLimiter == Init /\ [][LimiterNext]_vars

\* -------------------------------------------------------------- properties
\* C1: the conversation engine writes to the user store only in the order-id
\* handling, after the oracle returned paid for the order id of the message
\* and the pending email the handler read from the chat's session; the write
\* changes that chat's record only, to verified with that email and order id.
\* (Steps that leave tasks and outbox alone are the admin surface's.)
C1_WriteOnlyAfterPaid ==
  [][(users' # users /\ (tasks' # tasks \/ outbox' # Nothing)) =>
       \E h \in Tasks :
         LET t == tasks[h] IN
         /\ t.kind = "message"
         /\ t.pc \in {"msg_update", "msg_create"}
         /\ t.st.step = "ORDER_ID"
         /\ t.orc.paid
         /\ t.orc.email = t.st.email
         /\ t.orc.order = sanitizeString(t.text)
         /\ \E o \in OrderAnswers(t.orc.order) :
              verifyOrderPayment(t.orc.order, t.orc.email, o)
         /\ \A d \in Chats \ {t.chat} : users'[d] = users[d]
         /\ users'[t.chat].exists
         /\ users'[t.chat].isVerified
         /\ users'[t.chat].email = t.orc.email
         /\ users'[t.chat].orderId = t.orc.order
         /\ tasks'[h].pc = "msg_wrote"]_vars

C1_Witness ==
  \E h \in Tasks :
    /\ tasks[h].pc = "msg_wrote"
    /\ tasks[h].wr = "ok"
    /\ tasks[h].orc.paid
    /\ users[tasks[h].chat].isVerified
    /\ users[tasks[h].chat].orderId = <<"7">>

C3_PendingEmailExclusive ==
  [][\A h \in Tasks :
       LET t == tasks[h] IN
       (/\ t.kind = "message"
        /\ t.pc = "msg_gotByEmail"
        /\ tasks'[h] # t
        /\ \E a \in Chats \ {t.chat} :
             /\ userStates[a] = Session("ORDER_ID", sanitizeString(t.text))
             /\ ~users[a].exists)
       => /\ userStates'[t.chat] = userStates[t.chat]
          /\ "dup_email" \in outbox'.msgs]_vars

\* what counts as course content, and what as a refusal
Content == {"menu", "summary", "lesson"}

Refusals == {"use_start", "banned", "not_verified_yet", "refused", "error"}

\* C4: /courses and the menu selections send course content (menu, summary,
\* lesson) only to a chat whose record exists, is verified and is not banned;
\* any other chat gets a refusal; neither changes the user store or the
\* sessions.
C4_ContentOnlyForVerified ==
  [][outbox'.kind \in {"courses", "callback"} =>
       LET u == users[outbox'.chat]
           ok == u.exists /\ u.isVerified /\ ~u.isBanned
       IN
       /\ (outbox'.msgs \cap Content # {}) => ok
       /\ ~ok => (outbox'.msgs \cap Refusals # {})
       /\ users' = users
       /\ userStates' = userStates]_vars

C4_Witness ==
  /\ outbox.kind = "callback"
  /\ outbox.msgs = {"refused"}
  /\ users[outbox.chat].isVerified
  /\ users[outbox.chat].isBanned

\* ---- connection manager
BuildPcs ==
  {"iac_getWoo", "iac_gotWoo", "iac_createWoo", "iac_createdWoo", "iac_getTg",
   "iac_gotTg", "iac_createTg", "iac_createdTg", "iac_done", "iac_threw",
   "init_getCfg", "init_gotCfg", "init_reg", "init_ret", "init_null"}

\* caller p is inside the try block of bootstrapTelegramBot
Building(p) ==
  callers[p].kind \in {"bootstrap", "put"} /\ callers[p].pc \in BuildPcs

OthersIdle(p) == \A q \in Callers \ {p} : callers[q].kind = "idle"

\* C5 (as stated): a rebuild issued by the admin surface after it changed the
\* stored token while a connection existed has, when it completes, stopped
\* the old connection and made a polling connection with the stored token the
\* current one.
C5_RebuildUsesCurrentToken ==
  \A p \in Callers :
    LET c == callers[p] IN
    (/\ c.kind = "put"
     /\ c.pc = "done"
     /\ c.res \in {"ok", "failed"}
     /\ c.had # NoBot
     /\ bots[c.had].token # c.tok
     /\ OthersIdle(p))
    => /\ ~bots[c.had].polling
       /\ botInstance # NoBot
       /\ botInstance # c.had
       /\ bots[botInstance].polling
       /\ bots[botInstance].token = apiConfigs["telegram"].botToken

BothReturned ==
  /\ \A p \in Callers :
       /\ callers[p].kind \in {"bootstrap", "put"}
       /\ callers[p].pc = "done"
       /\ callers[p].res \in {"ok", "failed", "skipped"}
  /\ \E p \in Callers : callers[p].res = "skipped"

\* a non-empty token is held by the active stored configuration or by the
\* environment
TokenAvailable ==
  \/ /\ apiConfigs["telegram"].exists
     /\ apiConfigs["telegram"].isActive
     /\ apiConfigs["telegram"].botToken # ""
  \/ tokenFromEnv # ""

\* C6 (as stated): after two concurrent rebuilds have both returned there is
\* exactly one polling connection, never zero and never two.  Checked where
\* a connection can be expected: the store holds a token and the read of the
\* build that ran was answered with the configuration row.
C6_ExactlyOneAfterConcurrentRebuilds ==
  (/\ BothReturned
   /\ TokenAvailable
   /\ tokenFromEnv = ""
   /\ \A p \in Callers :
        callers[p].res \in {"ok", "failed"} => callers[p].cfg.exists)
  => Cardinality(Polling) = 1

\* C7 (as stated): under any interleaving of getBot, initTelegramBot and
\* bootstrapTelegramBot at most one bot is polling.
C7_AtMostOnePolling == Cardinality(Polling) <= 1

\* C8 (as stated): a getBot call whose configuration read was answered fails
\* exactly when neither the stored configuration nor the environment holds a
\* non-empty token.
C8_FailsIffNoToken ==
  \A p \in Callers :
    LET c == callers[p] IN
    (/\ c.kind = "getBot"
     /\ c.pc = "done"
     /\ OthersIdle(p)
     /\ c.cfg = getTelegramConfig(apiConfigs["telegram"]))
    => (c.res = "threw" <=> ~TokenAvailable)

NoTokenAnywhere ==
  /\ tokenFromEnv = ""
  /\ ~apiConfigs["telegram"].exists \/ apiConfigs["telegram"].botToken = ""

C10_NoSessionLeftBehind ==
  \A c \in Chats :
    (users[c].orderId # <<>> /\ \A h \in Tasks : tasks[h].chat # c) =>
      userStates[c] = NoSession

\* C11 (as stated): a call of verifyOrderPayment whose request the commerce
\* API never answers has returned (not verified) within a bounded wait, here
\* before MaxWait ticks have passed.
C11_VerifyReturnsInBoundedTime ==
  ~(vcall.pc = "request" /\ vcall.silent /\ vcall.elapsed = MaxWait)

\* C12 (as stated): after a paid oracle answer, a handler whose write stored
\* no verified record for the chat (the write threw, or updateUser matched no
\* row) neither clears the session nor sends the success message.
C12_NoSuccessWithoutRecord ==
  [][\A h \in Tasks :
       LET t == tasks[h] IN
       (/\ t.kind = "message"
        /\ t.orc.paid
        /\ t.pc \in {"msg_update", "msg_create", "msg_wrote"}
        /\ tasks'[h] # t
        /\ users' = users
        /\ t.wr # "ok")
       => /\ userStates'[t.chat] = userStates[t.chat]
          /\ "success" \notin outbox'.msgs]_vars

\* C13: when /start is handled for a chat that has no record, the chat's
\* session becomes AwaitingEmail with no pending email and the store is not
\* written; handling /start again for the same chat leaves the session map
\* exactly as the first /start left it.
C13_StartWithoutRecord ==
  [][\A h \in Tasks :
       LET t == tasks[h] IN
       (/\ t.pc = "start_gotUser"
        /\ ~t.usr.exists /\ ~users[t.chat].exists
        /\ tasks'[h] # t)
       => /\ userStates'[t.chat] = Session("EMAIL", <<>>)
          /\ \A c \in Chats \ {t.chat} : userStates'[c] = userStates[c]
          /\ users' = users
          /\ (userStates[t.chat] = Session("EMAIL", <<>>)
                => userStates' = userStates)]_vars

\* a first /start has answered a chat without a record and a second /start of
\* the same chat has read the store and is about to set the session again
C13_Witness ==
  /\ outbox.kind = "start" /\ "welcome" \in outbox.msgs
  /\ ~users[outbox.chat].exists
  /\ userStates[outbox.chat] = Session("EMAIL", <<>>)
  /\ \E h \in Tasks :
       /\ tasks[h].kind = "start" /\ tasks[h].chat = outbox.chat
       /\ tasks[h].pc = "start_gotUser" /\ ~tasks[h].usr.exists

\* C14: when /start is handled for a chat whose record exists and is neither
\* verified nor banned, the chat's session becomes AwaitingOrderId with the
\* record's email as pending email, whatever the session was before.
C14_StartResumesUnverified ==
  [][\A h \in Tasks :
       LET t == tasks[h] IN
       (/\ t.pc = "start_gotUser"
        /\ t.usr.exists /\ ~t.usr.isVerified /\ ~t.usr.isBanned
        /\ tasks'[h] # t)
       => /\ userStates'[t.chat] = Session("ORDER_ID", t.usr.email)
          /\ users' = users]_vars

\* /start has just answered a chat whose record is unverified and unbanned and
\* left it in AwaitingOrderId with the record's email
C14_Witness ==
  /\ outbox.kind = "start" /\ "ask_order" \in outbox.msgs
  /\ users[outbox.chat].exists
  /\ ~users[outbox.chat].isVerified /\ ~users[outbox.chat].isBanned
  /\ userStates[outbox.chat] = Session("ORDER_ID", users[outbox.chat].email)

\* C15: counting the attempts of one key from the start of its window, the
\* first N are granted and the next one is denied, with N = 20 for a chat
\* identity, 100 for an API caller and 5 for a login source address; a denied
\* attempt is answered at once with false (chat) or status 429 (HTTP).
C15_BucketBoundary ==
  verdict.limiter # "none" =>
    LET N == IF verdict.limiter = "telegram" THEN 20
             ELSE IF verdict.limiter = "api" THEN 100
             ELSE 5
        granted == IF verdict.limiter = "telegram" THEN "true" ELSE "next"
        denied == IF verdict.limiter = "telegram" THEN "false" ELSE "429"
    IN
    /\ consumed[verdict.limiter] = verdict.before + 1
    /\ verdict.before < N => verdict.out = granted
    /\ verdict.before >= N => verdict.out = denied

\* the 21st attempt of a chat identity within one window has been denied
C15_Witness ==
  verdict = [limiter |-> "telegram", before |-> 20, out |-> "false"]

\* C16 (as stated): every handler of a chat event that has returned had first
\* asked the rate limiter of the chat identity, whether it was let through or
\* turned away.
C16_LimiterBeforeEngine ==
  outbox.kind # "none" => outbox.rl # "none"

\* C17 (as stated): every handler of a chat event that has returned had sent
\* at least one response (a message or a callback answer) to its chat.
C17_EveryEventAnswered ==
  outbox.kind # "none" => outbox.msgs # {}

\* C18 (as stated, in the case the claim names): an event that arrives while
\* an order verification started by an earlier event of the same chat is
\* still waiting for the oracle is not answered before that verification is.
C18_AnsweredInArrivalOrder ==
  [][(outbox'.kind # "none" /\ tasks' = tasks)
       => \A h \in Tasks :
            ~(tasks[h].chat = outbox'.chat /\ tasks[h].pc = "msg_wait")]_vars

\* the steps of initializeApiConfigurations and of initTelegramBot
IacPcs ==
  {"iac_getWoo", "iac_gotWoo", "iac_createWoo", "iac_createdWoo", "iac_getTg",
   "iac_gotTg", "iac_createTg"}

InitPcs == {"init_getCfg", "init_gotCfg", "init_reg", "init_ret", "init_null"}

\* C19: a call of bootstrapTelegramBot enters connection construction only
\* after its initializeApiConfigurations has returned, and unless a query of
\* the store failed the 'telegram' and the 'woocommerce' record then both
\* exist; no step of initializeApiConfigurations changes a record that
\* already exists.
C19_DefaultsBeforeConnection ==
  [][\A p \in Callers :
       LET c == callers[p]
           d == callers'[p]
       IN
       /\ (d.kind \in {"bootstrap", "put"} /\ d.pc \in InitPcs
             /\ c.pc \notin InitPcs)
            => /\ c.pc \in {"iac_done", "iac_createdTg", "iac_threw"}
               /\ c.pc # "iac_threw"
                    => \A n \in ConfigNames : apiConfigs[n].exists
       /\ (c.pc \in IacPcs /\ d # c)
            => \A n \in ConfigNames :
                 apiConfigs[n].exists => apiConfigs'[n] = apiConfigs[n]]_vars

\* initializeApiConfigurations has returned without creating anything while
\* the 'telegram' record holds a token that differs from the environment's
C19_Witness ==
  \E p \in Callers :
    /\ callers[p].pc = "iac_done"
    /\ apiConfigs["telegram"].exists
    /\ apiConfigs["telegram"].botToken # envToken
    /\ apiConfigs["telegram"].botToken # ""

\* C20: a call of verifyOrderPayment that has returned returned true exactly
\* when both arguments were given, a usable commerce configuration was found,
\* the request was answered with an order, the order's billing email equals
\* the supplied email ignoring letter case, and the order's status is
\* completed or processing; in every other case it returned false.
C20_TrueIffPaidOrderOfEmail ==
  vcall.pc = "returned" =>
    (vcall.result <=>
       /\ vcall.orderId # <<>> /\ vcall.email # <<>>
       /\ vcall.cfg = "ok"
       /\ vcall.resp.kind = "order"
       /\ toLowerCase(vcall.resp.email) = toLowerCase(vcall.email)
       /\ vcall.resp.status \in {"completed", "processing"})

\* a call has returned true for an order whose billing email differs from the
\* supplied email in letter case only
C20_Witness ==
  /\ vcall.pc = "returned" /\ vcall.result
  /\ vcall.resp.email # vcall.email

\* handler h is handling a text as an order id: it has read the session of its
\* chat in the ORDER_ID step, or is about to
OrderIdHandling(h) ==
  LET t == tasks[h] IN
  /\ t.kind = "message"
  /\ \/ t.st.step = "ORDER_ID"
     \/ t.pc = "msg_rl" /\ userStates[t.chat].step = "ORDER_ID"

C22_NoSessionAfterTerminalStart ==
  (outbox.kind = "start" /\ outbox.msgs \cap {"banned", "already"} # {})
    => userStates[outbox.chat] = NoSession

\* C22 (amended): /start for a chat whose record is banned or verified changes
\* neither the session store nor the user store, sends only the ban notice to
\* a banned chat and only the 'already verified' message and the course menu
\* to a verified one; the chat's session entry stays what it was.
C22_TerminalStartChangesNothing ==
  [][\A h \in Tasks :
       LET t == tasks[h] IN
       (/\ t.pc = "start_gotUser"
        /\ t.usr.exists /\ (t.usr.isBanned \/ t.usr.isVerified)
        /\ tasks'[h] # t)
       => /\ userStates' = userStates
          /\ users' = users
          /\ outbox'.chat = t.chat
          /\ outbox'.msgs = IF t.usr.isBanned THEN {"banned"}
                            ELSE {"already", "menu"}]_vars

\* /start has sent the ban notice to a chat that still has its session
C22_Witness ==
  /\ outbox.kind = "start" /\ outbox.msgs = {"banned"}
  /\ userStates[outbox.chat].step = "ORDER_ID"

\* C23: while a text is handled in the EMAIL step the user store is never
\* written and the oracle is never called; a text whose sanitized form has not
\* the shape of an email is refused with the session store unchanged; when the
\* lookup found a record with exactly that email under another chat the text
\* is refused with the session store unchanged; when it found none, or the
\* chat's own, the chat's session becomes ORDER_ID with the sanitized email.
C23_EmailStep ==
  [][\A h \in Tasks :
       LET t == tasks[h]
           clean == sanitizeString(t.text)
           handled == \/ t.pc = "msg_rl" /\ userStates[t.chat].step = "EMAIL"
                      \/ t.pc \in {"msg_getByEmail", "msg_gotByEmail"}
       IN
       (t.kind = "message" /\ handled /\ tasks'[h] # t)
       => /\ users' = users
          /\ tasks'[h].pc \in {"idle", "msg_getByEmail", "msg_gotByEmail"}
          /\ t.pc # "msg_gotByEmail" => userStates' = userStates
          /\ (t.pc = "msg_rl" /\ ~isValidEmail(clean))
               => outbox'.msgs \in {{"bad_email"}, {"too_many"}}
          /\ (t.pc = "msg_gotByEmail" /\ t.owner \notin {0, t.chat})
               => userStates' = userStates /\ outbox'.msgs = {"dup_email"}
          /\ (t.pc = "msg_gotByEmail" /\ t.owner \in {0, t.chat})
               => /\ isValidEmail(clean)
                  /\ userStates' = [userStates EXCEPT ![t.chat] =
                                      Session("ORDER_ID", clean)]]_vars

\* a chat in the EMAIL step has entered the email of its own record and is
\* now asked for an order id
C23_Witness ==
  /\ outbox.kind = "message" /\ outbox.msgs = {"email_ok"}
  /\ users[outbox.chat].exists
  /\ userStates[outbox.chat] = Session("ORDER_ID", users[outbox.chat].email)

\* C24 (as stated): the handling of an order id that has stored the verified
\* record clears the chat's session and has, when it returns, sent both the
\* success message and the course menu, also when editing the wait message
\* failed.
C24_SuccessAndMenuAfterWrite ==
  [][\A h \in Tasks :
       LET t == tasks[h] IN
       (t.pc = "msg_wrote" /\ t.wr = "ok" /\ tasks'[h] # t)
       => /\ userStates'[t.chat] = NoSession
          /\ {"success", "menu"} \subseteq outbox'.msgs]_vars

\* C25: a /start or a text that the rate limiter turns away changes neither
\* the session store nor the user store, has read no record and called no
\* oracle, and is answered with the 'too many requests' notice only.
C25_DeniedEventHasNoEffect ==
  [][outbox'.rl = "denied"
       => /\ outbox'.kind \in {"start", "message"}
          /\ outbox'.msgs = {"too_many"}
          /\ userStates' = userStates
          /\ users' = users
          /\ \A h \in Tasks :
               tasks'[h] # tasks[h]
                 => /\ tasks[h].pc = "msg_rl"
                    /\ tasks[h].usr = NoUser /\ tasks[h].owner = 0
                    /\ tasks[h].orc = NoCall /\ tasks[h].wr = "none"]_vars

\* a text of a chat that is asked for its order id has been turned away
C25_Witness ==
  /\ outbox.kind = "message" /\ outbox.rl = "denied"
  /\ userStates[outbox.chat].step = "ORDER_ID"

\* C26 (as stated): a lesson sent for a subcontent selection carries the
\* subcontent's whole content, its url whenever the row has one, and exactly
\* one button, back to the parent course; a selection of a subcontent that
\* does not exist is answered 'not found'.
C26_LessonCarriesBodyUrlAndBack ==
  (reply.sel.type = "subcontent") =>
    LET subcontent == getCourseSubcontent(subcontents, reply.sel.id) IN
    IF subcontent.state # "live" THEN reply.kind = "not_found"
    ELSE /\ reply.kind = "lesson"
         /\ "content" \in reply.parts /\ reply.body = subcontent.content
         /\ subcontent.url # "" => "url" \in reply.parts
         /\ reply.buttons = {Selector("course", subcontent.courseId)}

\* C30 (as stated): the course menu lists only active courses, and a course
\* summary or a lesson is sent only for a course that is active when the
\* selection is handled.
C30_OnlyActiveCoursesServed ==
  /\ reply.kind = "menu"
       => \A b \in reply.buttons : b.id \in getActiveCourses(courses)
  /\ reply.kind = "summary" => reply.sel.id \in getActiveCourses(courses)
  /\ reply.kind = "lesson"
       => subcontents[reply.sel.id].courseId \in getActiveCourses(courses)

\* C27 (as stated): when the credential update answers that the bot was
\* restarted, its rebuild was not skipped and did not fail, and the current
\* connection polls with the token the update has just written.
C27_RestartReportedOnlyWhenRebuilt ==
  \A p \in Callers :
    LET c == callers[p] IN
    (c.kind = "put" /\ c.pc = "done"
      /\ putResponse(c.res) = "updated_and_restarted")
    => /\ c.res = "ok"
       /\ botInstance # NoBot
       /\ bots[botInstance].token = c.tok
       /\ bots[botInstance].polling

\* C28 (as stated): no two chats have verified records with the same order
\* identifier.
C28_OrderVerifiesOneChat ==
  \A a \in Chats, b \in Chats :
    (/\ a # b
     /\ users[a].exists /\ users[a].isVerified /\ users[a].orderId # <<>>
     /\ users[b].exists /\ users[b].isVerified)
    => users[b].orderId # users[a].orderId

\* C29 (as stated, for the handling of texts): no step of a handler sets
\* verified on a record that is banned, and no handling of a text ends with
\* the course menu sent to a chat whose record is banned.
C29_BannedNeverVerifiedNorServed ==
  [][\A c \in Chats :
       (users[c].exists /\ users[c].isBanned)
       => /\ tasks' # tasks => users'[c].isVerified = users[c].isVerified
          /\ ~(/\ outbox'.kind = "message" /\ outbox'.chat = c
               /\ "menu" \in outbox'.msgs)]_vars

====
